---- MODULE Spec2Model ----
(***************************************************************************)
(* Model of the message-ingestion core of rocket-app:                      *)
(* MessageProcessorService.processMessage, processBufferedMessages and     *)
(* applyStateChange, over the three Prisma tables (rocket, message,        *)
(* bufferedMessage).  Every `await` on a repository is one atomic step of  *)
(* a call; calls interleave at those steps.                                *)
(***************************************************************************)
EXTENDS Integers, Sequences, FiniteSets, TLC

\* ------------------------------------------------------------------ bounds
\* Sequence numbers range over 1..MaxSeq.  A behaviour with free inputs holds
\* MaxCalls calls, of which at most MaxInFlight run at the same time; a
\* scripted run holds one call per sequence number.
MaxSeq == 4
MaxCalls == 3
MaxInFlight == 2
\* A behaviour with storage failures holds at most MaxFaults of them.
MaxFaults == 1

SeqNums == 1..MaxSeq
Calls == 1..(IF MaxCalls >= MaxSeq THEN MaxCalls ELSE MaxSeq)
Channels == {"c1"}

\* ------------------------------------------------------------ wire values
ROCKET_LAUNCHED == "RocketLaunched"
ROCKET_SPEED_INCREASED == "RocketSpeedIncreased"
ROCKET_SPEED_DECREASED == "RocketSpeedDecreased"
ROCKET_EXPLODED == "RocketExploded"
ROCKET_MISSION_CHANGED == "RocketMissionChanged"

\* enum MessageType
MessageTypes == {ROCKET_LAUNCHED, ROCKET_SPEED_INCREASED, ROCKET_SPEED_DECREASED,
                 ROCKET_EXPLODED, ROCKET_MISSION_CHANGED}

ACTIVE == "ACTIVE"
EXPLODED == "EXPLODED"
\* explosionReason: string | null
Null == "null"

\* A messageTime string on the wire is written <<instant, offset>>: the UTC
\* instant it denotes and the zone notation it is spelt with.  The producer
\* stamps message n at instant n, spelt with "Z" or with an offset.
TimeString(n) == <<n, IF n % 2 = 0 THEN "+01:00" ELSE "Z">>

\* new Date(s): the instant the string denotes.
ParseDate(s) == s[1]

\* Date.prototype.toISOString(): always the UTC "Z" spelling.
ToISOString(d) == <<d, "Z">>

\* JSON.stringify / JSON.parse of a validated payload object: the text is a
\* value of another type than the object, parse inverts stringify.
JSONStringify(obj) == <<"json", obj>>
JSONParse(text) == text[2]

\* (messageType, message) pairs a validated request can carry.
Payloads ==
  { <<ROCKET_LAUNCHED, [type |-> "Falcon-9", launchSpeed |-> 500, mission |-> "ARTEMIS"]>>,
    <<ROCKET_SPEED_INCREASED, [by |-> 500]>>,
    <<ROCKET_SPEED_INCREASED, [by |-> 1000]>>,
    <<ROCKET_SPEED_DECREASED, [by |-> 1000]>>,
    <<ROCKET_EXPLODED, [reason |-> "X"]>>,
    <<ROCKET_EXPLODED, [reason |-> "Y"]>>,
    <<ROCKET_MISSION_CHANGED, [newMission |-> "SHUTTLE_MIR"]>> }

\* IncomingMessage = { metadata, message }
IncomingMessage(c, n, t, p) ==
  [metadata |-> [channel |-> c, messageNumber |-> n, messageTime |-> t, messageType |-> p[1]],
   message |-> p[2]]

IncomingMessages ==
  { IncomingMessage(c, n, TimeString(n), p) : c \in Channels, n \in SeqNums, p \in Payloads }

\* what a caller of processMessage other than the validated route can pass:
\* the requests above and messages of a type outside the enum
UnknownPayloads == { <<"RocketRefuelled", [by |-> 500]>> }
DirectMessages ==
  IncomingMessages \cup
  { IncomingMessage(c, n, TimeString(n), p) : c \in Channels, n \in SeqNums, p \in UnknownPayloads }

\* the requests of a run over two channels
TwoChannels == {"c1", "c2"}
IncomingMessagesTwo ==
  { IncomingMessage(c, n, TimeString(n), p) : c \in TwoChannels, n \in SeqNums, p \in Payloads }

\* ------------------------------------------------------------------ state
VARIABLES
  rockets,      \* table rocket: set of rows, unique on channel
  messages,     \* table message (applied / audited events), unique on (channel, messageNumber)
  buffered,     \* table bufferedMessage, unique on (channel, messageNumber); id is the row's key
  call,         \* call[i]: the i-th processMessage invocation (position and locals)
  transitions,  \* history: every invocation of applyStateChange, in order
  pre,          \* history: the tables when the running call was received (sequential runs)
  script        \* the events 1..N of a scripted run (empty otherwise)

vars == <<rockets, messages, buffered, call, transitions, pre, script>>
tables == <<rockets, messages, buffered>>

\* ------------------------------------------------------- repository reads
\* mutant: the lookup uses the wrong message number
MessageFindUniqueWrongKey(tbl, c, n) ==
  { m \in tbl : m.channel = c /\ m.messageNumber = n + 1 }

\* prisma.message.findUnique({ where: { channel_messageNumber } })
MessageFindUnique(tbl, c, n) == { m \in tbl : m.channel = c /\ m.messageNumber = n }

\* prisma.bufferedMessage.findUnique({ where: { channel_messageNumber } })
BufferedFindUnique(tbl, c, n) == { b \in tbl : b.channel = c /\ b.messageNumber = n }

\* mutant: the lookup ignores the channel
RocketFindFirst(tbl, c) == tbl

\* prisma.rocket.findUnique({ where: { channel } })
RocketFindByChannel(tbl, c) == { r \in tbl : r.channel = c }

\* CreateMessageData / CreateBufferedMessageData built from the live request
MessageData(im) ==
  [channel |-> im.metadata.channel,
   messageNumber |-> im.metadata.messageNumber,
   messageTime |-> ParseDate(im.metadata.messageTime),
   messageType |-> im.metadata.messageType,
   payload |-> JSONStringify(im.message)]

\* the audit row written for a drained bufferedMessage row b
BufferedAuditData(b) ==
  [channel |-> b.channel,
   messageNumber |-> b.messageNumber,
   messageTime |-> b.messageTime,
   messageType |-> b.messageType,
   payload |-> b.payload]

\* the IncomingMessage rebuilt from a bufferedMessage row
Reconstruct(b) ==
  [metadata |-> [channel |-> b.channel,
                 messageNumber |-> b.messageNumber,
                 messageTime |-> ToISOString(b.messageTime),
                 messageType |-> b.messageType],
   message |-> JSONParse(b.payload)]

\* ------------------------------------------------------ ordering decision
\* mutant: no message is ever taken for a message from the past
IsOutOfOrderNever(messageNumber, lastMessageNumber) == FALSE

\* messageNumber < rocket.lastMessageNumber
IsOutOfOrder(messageNumber, lastMessageNumber) == messageNumber < lastMessageNumber

\* mutant: the gap test is off by one
IsFutureOffByOne(messageNumber, lastMessageNumber) == messageNumber > lastMessageNumber + 2

\* messageNumber > rocket.lastMessageNumber + 1
IsFuture(messageNumber, lastMessageNumber) == messageNumber > lastMessageNumber + 1

\* mutant: without a rocket the channel counts as being at sequence number 0
OrderingFromZero(rocket, messageNumber) ==
  IF rocket = {}
  THEN IF IsFuture(messageNumber, 0) THEN "future" ELSE "apply"
  ELSE LET r == CHOOSE x \in rocket : TRUE IN
       IF IsOutOfOrder(messageNumber, r.lastMessageNumber) THEN "stale"
       ELSE IF IsFuture(messageNumber, r.lastMessageNumber) THEN "future"
       ELSE "apply"

\* the branch processMessage takes after loading the rocket (a set: {} is null)
Ordering(rocket, messageNumber) ==
  IF rocket = {} THEN "apply"
  ELSE LET r == CHOOSE x \in rocket : TRUE IN
       IF IsOutOfOrder(messageNumber, r.lastMessageNumber) THEN "stale"
       ELSE IF IsFuture(messageNumber, r.lastMessageNumber) THEN "future"
       ELSE "apply"

\* --------------------------------------------------------- state transition
\* mutant: the clamp is missing
MaxSecond(a, b) == b

\* mutant: the floor always wins
MaxFirst(a, b) == a

Max(a, b) == IF a >= b THEN a ELSE b

\* mutant: the guard for exploded rockets is missing
IsExplodedNever(r) == FALSE

\* existingRocket.status === RocketStatus.EXPLODED
IsExploded(r) == r.status = EXPLODED

\* What applyStateChange asks of the rocket repository, computed from the
\* rocket it was handed (a snapshot) and the message:
\*   op = "throw"  : ensureRocket failed (or unknown type)
\*   op = "none"   : returns the rocket it was handed, no repository call
\*   op = "create" : rocketRepository.create(data)
\*   op = "update" : rocketRepository.update(channel, data)
\*   op = "reject" : rocketRepository.create(data) with a required field
\*                   undefined, which Prisma rejects
\* A payload field that is absent reads as undefined; Prisma leaves a column
\* alone whose value in data is undefined.
Defined(column, msg, field) ==
  IF field \in DOMAIN msg THEN column :> msg[field] ELSE <<>>

\* mutant: a launch on an existing rocket overwrites it
LaunchOverwrites(rocket, im) ==
  [op |-> "update",
   data |-> [type |-> im.message.type,
             currentSpeed |-> im.message.launchSpeed,
             mission |-> im.message.mission,
             status |-> ACTIVE,
             explosionReason |-> Null,
             lastMessageNumber |-> im.metadata.messageNumber,
             lastMessageTime |-> ParseDate(im.metadata.messageTime)]]

\* lines 224-230: a launch on an existing rocket returns it untouched
LaunchOnExisting(rocket, im) == [op |-> "none"]

StateChange(rocket, im) ==
  LET md == im.metadata
      msg == im.message
      t == md.messageType
      r == CHOOSE x \in rocket : TRUE
      stamp == [lastMessageNumber |-> md.messageNumber,
                lastMessageTime |-> ParseDate(md.messageTime)]
  IN
  CASE t = ROCKET_LAUNCHED ->
         IF rocket # {} THEN LaunchOnExisting(rocket, im)
         ELSE IF ~({"type", "launchSpeed", "mission"} \subseteq DOMAIN msg)
           THEN [op |-> "reject"]
         ELSE [op |-> "create",
               data |-> [channel |-> md.channel,
                         type |-> msg.type,
                         currentSpeed |-> msg.launchSpeed,
                         mission |-> msg.mission,
                         status |-> ACTIVE,
                         explosionReason |-> Null,
                         lastMessageNumber |-> md.messageNumber,
                         lastMessageTime |-> ParseDate(md.messageTime)]]
    [] t = ROCKET_SPEED_INCREASED ->
         IF rocket = {} THEN [op |-> "throw"]
         ELSE IF IsExploded(r) THEN [op |-> "none"]
         ELSE [op |-> "update",
               data |-> [currentSpeed |-> r.currentSpeed + msg.by] @@ stamp]
    [] t = ROCKET_SPEED_DECREASED ->
         IF rocket = {} THEN [op |-> "throw"]
         ELSE IF IsExploded(r) THEN [op |-> "none"]
         ELSE [op |-> "update",
               data |-> [currentSpeed |-> Max(0, r.currentSpeed - msg.by)] @@ stamp]
    [] t = ROCKET_EXPLODED ->
         IF rocket = {} THEN [op |-> "throw"]
         ELSE [op |-> "update",
               data |-> [status |-> EXPLODED, currentSpeed |-> 0]
                         @@ Defined("explosionReason", msg, "reason") @@ stamp]
    [] t = ROCKET_MISSION_CHANGED ->
         IF rocket = {} THEN [op |-> "throw"]
         ELSE IF IsExploded(r) THEN [op |-> "none"]
         ELSE [op |-> "update",
               data |-> Defined("mission", msg, "newMission") @@ stamp]
    [] OTHER -> [op |-> "throw"]

\* the error applyStateChange throws of itself: ensureRocket's "not found",
\* or the default branch's "Unknown message type"
ThrownError(im) ==
  IF im.metadata.messageType \in MessageTypes THEN "rocketNotFound" ELSE "unknownType"

\* mutant: the update blanks the mission when data does not name one
PatchBlanksMission(row, data) ==
  [f \in DOMAIN row |->
     IF f \in DOMAIN data THEN data[f]
     ELSE IF f = "mission" THEN "" ELSE row[f]]

\* mutant: the update does not write explosionReason
PatchWithoutReason(row, data) ==
  [f \in DOMAIN row |->
     IF f \in DOMAIN data /\ f # "explosionReason" THEN data[f] ELSE row[f]]

\* prisma.rocket.update({ where: { channel }, data }): the row with the
\* fields of data overwritten
Patch(row, data) ==
  [f \in DOMAIN row |-> IF f \in DOMAIN data THEN data[f] ELSE row[f]]

\* mutant: the created rocket carries no sequence number
ApplyStateChangeUnstamped(tbl, rocket, im) ==
  LET sc == StateChange(rocket, im)
      c == im.metadata.channel
      cur == RocketFindByChannel(tbl, c)
  IN
  CASE sc.op \in {"throw", "reject"} -> [ok |-> FALSE, tbl |-> tbl, wrote |-> FALSE]
    [] sc.op = "none" -> [ok |-> TRUE, tbl |-> tbl, wrote |-> FALSE]
    [] sc.op = "create" ->
         IF cur # {} THEN [ok |-> FALSE, tbl |-> tbl, wrote |-> FALSE]
         ELSE [ok |-> TRUE,
               tbl |-> tbl \cup {[sc.data EXCEPT !.lastMessageNumber = 0]},
               wrote |-> TRUE]
    [] sc.op = "update" ->
         IF cur = {} THEN [ok |-> FALSE, tbl |-> tbl, wrote |-> FALSE]
         ELSE [ok |-> TRUE,
               tbl |-> (tbl \ cur) \cup { Patch(r, sc.data) : r \in cur },
               wrote |-> TRUE]

\* The effect of applyStateChange on the rocket table:
\* [ok, tbl (the table afterwards), wrote (a row was created or updated)].
\* create fails on an existing channel, update on a missing one (Prisma).
ApplyStateChange(tbl, rocket, im) ==
  LET sc == StateChange(rocket, im)
      c == im.metadata.channel
      cur == RocketFindByChannel(tbl, c)
  IN
  CASE sc.op \in {"throw", "reject"} -> [ok |-> FALSE, tbl |-> tbl, wrote |-> FALSE]
    [] sc.op = "none" -> [ok |-> TRUE, tbl |-> tbl, wrote |-> FALSE]
    [] sc.op = "create" ->
         IF cur # {} THEN [ok |-> FALSE, tbl |-> tbl, wrote |-> FALSE]
         ELSE [ok |-> TRUE, tbl |-> tbl \cup {sc.data}, wrote |-> TRUE]
    [] sc.op = "update" ->
         IF cur = {} THEN [ok |-> FALSE, tbl |-> tbl, wrote |-> FALSE]
         ELSE [ok |-> TRUE,
               tbl |-> (tbl \ cur) \cup { Patch(r, sc.data) : r \in cur },
               wrote |-> TRUE]

\* ------------------------------------------------------------- call steps
Idle == [pc |-> "idle"]

\* the position a call is left in when processMessage returns or throws
Finish(c, outcome) == [c EXCEPT !.pc = "done", !.outcome = outcome]

Channel(i) == call[i].msg.metadata.channel
MessageNumber(i) == call[i].msg.metadata.messageNumber

\* the tables as a record (for the history variable pre)
Snapshot ==
  [rockets |-> rockets, messages |-> messages, buffered |-> buffered,
   mark |-> Len(transitions)]

NoCallRunning == \A j \in Calls : call[j].pc \in {"idle", "done"}

\* a request arrives: processMessage(im) starts (calls are numbered in
\* arrival order)
\* history: a message row of (c, n) exists and (c, n) went through a
\* successful applyStateChange
AppliedBefore(c, n) ==
  /\ \E m \in messages : m.channel = c /\ m.messageNumber = n
  /\ \E k \in 1..Len(transitions) :
       /\ transitions[k].channel = c
       /\ transitions[k].messageNumber = n
       /\ transitions[k].ok

Start(i, im) ==
  /\ call[i].pc = "idle"
  /\ IF i = 1 THEN TRUE ELSE call[i - 1].pc # "idle"
  /\ call' = [call EXCEPT ![i] =
                [pc |-> "checkProcessed", msg |-> im, rocket |-> {}, buf |-> {},
                 expected |-> 0, outcome |-> "running", fault |-> "none",
                 late |-> AppliedBefore(im.metadata.channel, im.metadata.messageNumber)]]
  /\ UNCHANGED <<tables, transitions, script>>

\* concurrent arrivals: a call may start whatever the other calls are doing
Receive(i) ==
  /\ i <= MaxCalls
  /\ Cardinality({ j \in Calls : call[j].pc \notin {"idle", "done"} }) < MaxInFlight
  /\ \E im \in IncomingMessages : Start(i, im)
  /\ UNCHANGED pre

\* sequential arrivals: a call starts only when no other call is running
ReceiveSequential(i) ==
  /\ i <= MaxCalls
  /\ NoCallRunning
  /\ \E im \in IncomingMessages : Start(i, im)
  /\ pre' = Snapshot

\* sequential calls of processMessage made directly
ReceiveDirect(i) ==
  /\ i <= MaxCalls
  /\ NoCallRunning
  /\ \E im \in DirectMessages : Start(i, im)
  /\ pre' = Snapshot

\* sequential arrivals on either of two channels
ReceiveTwoChannels(i) ==
  /\ i <= MaxCalls
  /\ NoCallRunning
  /\ \E im \in IncomingMessagesTwo : Start(i, im)
  /\ pre' = Snapshot

Submitted == { MessageNumber(j) : j \in { k \in Calls : call[k].pc # "idle" } }

\* scripted arrivals: each event of the script once, in any order, sequentially
ReceiveScripted(i) ==
  /\ NoCallRunning
  /\ \E n \in SeqNums \ Submitted : Start(i, script[n])
  /\ pre' = Snapshot

\* mutant: the duplicate check against the message table is skipped
CheckProcessedSkip(i) ==
  /\ call[i].pc = "checkProcessed"
  /\ call' = [call EXCEPT ![i] = [@ EXCEPT !.pc = "checkBuffered"]]
  /\ UNCHANGED <<tables, transitions, pre, script>>

\* lines 29-38: duplicate check against the message table
CheckProcessed(i) ==
  /\ call[i].pc = "checkProcessed"
  /\ LET existingMessage == MessageFindUnique(messages, Channel(i), MessageNumber(i)) IN
     call' = [call EXCEPT ![i] =
                IF existingMessage # {} THEN Finish(@, "duplicate")
                ELSE [@ EXCEPT !.pc = "checkBuffered"]]
  /\ UNCHANGED <<tables, transitions, pre, script>>

\* mutant: the duplicate check against the bufferedMessage table is skipped
CheckBufferedSkip(i) ==
  /\ call[i].pc = "checkBuffered"
  /\ call' = [call EXCEPT ![i] = [@ EXCEPT !.pc = "loadRocket"]]
  /\ UNCHANGED <<tables, transitions, pre, script>>

\* lines 40-52: duplicate check against the bufferedMessage table
CheckBuffered(i) ==
  /\ call[i].pc = "checkBuffered"
  /\ LET bufferedDuplicate == BufferedFindUnique(buffered, Channel(i), MessageNumber(i)) IN
     call' = [call EXCEPT ![i] =
                IF bufferedDuplicate # {} THEN Finish(@, "duplicate")
                ELSE [@ EXCEPT !.pc = "loadRocket"]]
  /\ UNCHANGED <<tables, transitions, pre, script>>

\* mutant: a channel without a rocket is ordered as if it were at number 0
LoadRocketFromZero(i) ==
  /\ call[i].pc = "loadRocket"
  /\ LET rocket == RocketFindByChannel(rockets, Channel(i))
         branch == IF rocket = {}
                   THEN IF IsFuture(MessageNumber(i), 0) THEN "future" ELSE "apply"
                   ELSE Ordering(rocket, MessageNumber(i))
     IN call' = [call EXCEPT ![i] =
                   [@ EXCEPT !.rocket = rocket,
                             !.pc = CASE branch = "stale" -> "auditStale"
                                      [] branch = "future" -> "bufferFuture"
                                      [] OTHER -> "applyLive"]]
  /\ UNCHANGED <<tables, transitions, pre, script>>

\* lines 54-95: load the rocket and choose the branch
LoadRocket(i) ==
  /\ call[i].pc = "loadRocket"
  /\ LET rocket == RocketFindByChannel(rockets, Channel(i))
         branch == Ordering(rocket, MessageNumber(i))
     IN call' = [call EXCEPT ![i] =
                   [@ EXCEPT !.rocket = rocket,
                             !.pc = CASE branch = "stale" -> "auditStale"
                                      [] branch = "future" -> "bufferFuture"
                                      [] OTHER -> "applyLive"]]
  /\ UNCHANGED <<tables, transitions, pre, script>>

\* mutant: the stale branch goes on to drain the buffer
AuditStaleThenDrain(i) ==
  /\ call[i].pc = "auditStale"
  /\ IF MessageFindUnique(messages, Channel(i), MessageNumber(i)) # {}
     THEN /\ call' = [call EXCEPT ![i] = Finish(@, "error")]
          /\ UNCHANGED messages
     ELSE /\ messages' = messages \cup {MessageData(call[i].msg)}
          /\ call' = [call EXCEPT ![i] =
                        [@ EXCEPT !.pc = "drainFind", !.outcome = "stale",
                                  !.expected = MessageNumber(i) + 1]]
  /\ UNCHANGED <<rockets, buffered, transitions, pre, script>>

\* lines 63-71: message from the past, audit row only
AuditStale(i) ==
  /\ call[i].pc = "auditStale"
  /\ IF MessageFindUnique(messages, Channel(i), MessageNumber(i)) # {}
     THEN /\ call' = [call EXCEPT ![i] = Finish(@, "error")]
          /\ UNCHANGED messages
     ELSE /\ messages' = messages \cup {MessageData(call[i].msg)}
          /\ call' = [call EXCEPT ![i] = Finish(@, "stale")]
  /\ UNCHANGED <<rockets, buffered, transitions, pre, script>>

\* mutant: after buffering, the call waits for the missing sequence number
BufferFutureWaits(i) ==
  /\ call[i].pc = "bufferFuture"
  /\ IF BufferedFindUnique(buffered, Channel(i), MessageNumber(i)) # {}
     THEN /\ call' = [call EXCEPT ![i] =
                        IF MessageFindUnique(messages, Channel(i), MessageNumber(i) - 1) # {}
                        THEN Finish(@, "buffered") ELSE @]
          /\ UNCHANGED buffered
     ELSE /\ buffered' = buffered \cup {MessageData(call[i].msg) @@ [id |-> i]}
          /\ UNCHANGED call
  /\ UNCHANGED <<rockets, messages, transitions, pre, script>>

\* lines 72-94: future message, bufferedMessage row only
BufferFuture(i) ==
  /\ call[i].pc = "bufferFuture"
  /\ IF BufferedFindUnique(buffered, Channel(i), MessageNumber(i)) # {}
     THEN /\ call' = [call EXCEPT ![i] = Finish(@, "error")]
          /\ UNCHANGED buffered
     ELSE /\ buffered' = buffered \cup {MessageData(call[i].msg) @@ [id |-> i]}
          /\ call' = [call EXCEPT ![i] = Finish(@, "buffered")]
  /\ UNCHANGED <<rockets, messages, transitions, pre, script>>

\* history entry of one applyStateChange(rocket, im) invocation: had/last
\* describe the rocket it was handed, gap says that some sequence number
\* between that rocket's lastMessageNumber and the message's had no message
\* row at that moment
Transition(i, rocket, im, path, res) ==
  LET last == IF rocket = {} THEN 0 ELSE (CHOOSE r \in rocket : TRUE).lastMessageNumber IN
  [call |-> i, channel |-> im.metadata.channel,
   messageNumber |-> im.metadata.messageNumber,
   messageType |-> im.metadata.messageType, path |-> path,
   had |-> rocket # {}, last |-> last,
   gap |-> \E k \in (last + 1)..(im.metadata.messageNumber - 1) :
             \A m \in messages : ~(m.channel = im.metadata.channel /\ m.messageNumber = k),
   ok |-> res.ok, wrote |-> res.wrote]

\* mutant: an error of applyStateChange does not stop the call
ApplyLiveAuditsAnyway(i) ==
  /\ call[i].pc = "applyLive"
  /\ LET res == ApplyStateChange(rockets, call[i].rocket, call[i].msg) IN
     /\ rockets' = res.tbl
     /\ transitions' = Append(transitions, Transition(i, call[i].rocket, call[i].msg, "live", res))
     /\ call' = [call EXCEPT ![i] = [@ EXCEPT !.pc = "auditLive"]]
  /\ UNCHANGED <<messages, buffered, pre, script>>

\* line 98: applyStateChange(rocket, incomingMessage) on the live path
ApplyLive(i) ==
  /\ call[i].pc = "applyLive"
  /\ LET res == ApplyStateChange(rockets, call[i].rocket, call[i].msg) IN
     /\ rockets' = res.tbl
     /\ transitions' = Append(transitions, Transition(i, call[i].rocket, call[i].msg, "live", res))
     /\ call' = [call EXCEPT ![i] =
                   IF res.ok THEN [@ EXCEPT !.pc = "auditLive"]
                   ELSE IF StateChange(call[i].rocket, call[i].msg).op = "throw"
                        THEN Finish(@, ThrownError(call[i].msg))
                   ELSE Finish(@, "error")]
  /\ UNCHANGED <<messages, buffered, pre, script>>

\* lines 100-112: audit row of the applied message, then start the drain
AuditLive(i) ==
  /\ call[i].pc = "auditLive"
  /\ IF MessageFindUnique(messages, Channel(i), MessageNumber(i)) # {}
     THEN /\ call' = [call EXCEPT ![i] = Finish(@, "error")]
          /\ UNCHANGED messages
     ELSE /\ messages' = messages \cup {MessageData(call[i].msg)}
          /\ call' = [call EXCEPT ![i] =
                        [@ EXCEPT !.pc = "drainFind", !.outcome = "applied",
                                  !.expected = MessageNumber(i) + 1]]
  /\ UNCHANGED <<rockets, buffered, transitions, pre, script>>

\* mutant: the drain takes the lowest buffered row at or after the expected
\* sequence number
DrainFindAny(i) ==
  /\ call[i].pc = "drainFind"
  /\ LET later == { b \in buffered :
                     b.channel = Channel(i) /\ b.messageNumber >= call[i].expected }
         found == { b \in later : \A x \in later : b.messageNumber <= x.messageNumber }
     IN
     call' = [call EXCEPT ![i] =
                IF found = {} THEN [@ EXCEPT !.pc = "done"]
                ELSE [@ EXCEPT !.pc = "drainLoad", !.buf = found]]
  /\ UNCHANGED <<tables, transitions, pre, script>>

\* lines 131-139: processBufferedMessages(channel, expectedMessageNumber)
DrainFind(i) ==
  /\ call[i].pc = "drainFind"
  /\ LET found == BufferedFindUnique(buffered, Channel(i), call[i].expected) IN
     call' = [call EXCEPT ![i] =
                IF found = {} THEN [@ EXCEPT !.pc = "done"]
                ELSE [@ EXCEPT !.pc = "drainLoad", !.buf = found]]
  /\ UNCHANGED <<tables, transitions, pre, script>>

\* mutant: without a rocket the drain stops and keeps the buffered row
DrainLoadKeepsOrphan(i) ==
  /\ call[i].pc = "drainLoad"
  /\ LET rocket == RocketFindByChannel(rockets, Channel(i)) IN
     IF rocket = {}
     THEN /\ call' = [call EXCEPT ![i] = [@ EXCEPT !.pc = "done"]]
          /\ UNCHANGED buffered
     ELSE /\ call' = [call EXCEPT ![i] = [@ EXCEPT !.pc = "drainApply", !.rocket = rocket]]
          /\ UNCHANGED buffered
  /\ UNCHANGED <<rockets, messages, transitions, pre, script>>

\* lines 158-169: reload the rocket; without one the buffered row is deleted
\* and the drain stops
DrainLoad(i) ==
  /\ call[i].pc = "drainLoad"
  /\ LET rocket == RocketFindByChannel(rockets, Channel(i)) IN
     IF rocket = {}
     THEN /\ buffered' = buffered \ { b \in buffered : \E x \in call[i].buf : b.id = x.id }
          /\ call' = [call EXCEPT ![i] = [@ EXCEPT !.pc = "done"]]
     ELSE /\ call' = [call EXCEPT ![i] = [@ EXCEPT !.pc = "drainApply", !.rocket = rocket]]
          /\ UNCHANGED buffered
  /\ UNCHANGED <<rockets, messages, transitions, pre, script>>

\* line 172: applyStateChange on the rebuilt message; an error is caught
DrainApply(i) ==
  /\ call[i].pc = "drainApply"
  /\ LET b == CHOOSE x \in call[i].buf : TRUE
         im == Reconstruct(b)
         res == ApplyStateChange(rockets, call[i].rocket, im)
     IN
     /\ rockets' = res.tbl
     /\ transitions' = Append(transitions, Transition(i, call[i].rocket, im, "drain", res))
     /\ call' = [call EXCEPT ![i] =
                   [@ EXCEPT !.pc = IF res.ok THEN "drainAudit" ELSE "done"]]
  /\ UNCHANGED <<messages, buffered, pre, script>>

\* lines 174-181: audit row of the drained message; an error is caught
DrainAudit(i) ==
  /\ call[i].pc = "drainAudit"
  /\ LET b == CHOOSE x \in call[i].buf : TRUE IN
     IF MessageFindUnique(messages, b.channel, b.messageNumber) # {}
     THEN /\ call' = [call EXCEPT ![i] = [@ EXCEPT !.pc = "done"]]
          /\ UNCHANGED messages
     ELSE /\ messages' = messages \cup {BufferedAuditData(b)}
          /\ call' = [call EXCEPT ![i] = [@ EXCEPT !.pc = "drainDelete"]]
  /\ UNCHANGED <<rockets, buffered, transitions, pre, script>>

\* mutant: the recursive call passes expectedMessageNumber unchanged
DrainDeleteSameExpected(i) ==
  /\ call[i].pc = "drainDelete"
  /\ LET b == CHOOSE x \in call[i].buf : TRUE
         row == { x \in buffered : x.id = b.id }
     IN
     IF row = {}
     THEN /\ call' = [call EXCEPT ![i] = [@ EXCEPT !.pc = "done"]]
          /\ UNCHANGED buffered
     ELSE /\ buffered' = buffered \ row
          /\ call' = [call EXCEPT ![i] = [@ EXCEPT !.pc = "drainFind"]]
  /\ UNCHANGED <<rockets, messages, transitions, pre, script>>

\* lines 190-199: delete the bufferedMessage row by id (an error if it is
\* gone, caught), then look for the next sequence number
DrainDelete(i) ==
  /\ call[i].pc = "drainDelete"
  /\ LET b == CHOOSE x \in call[i].buf : TRUE
         row == { x \in buffered : x.id = b.id }
     IN
     IF row = {}
     THEN /\ call' = [call EXCEPT ![i] = [@ EXCEPT !.pc = "done"]]
          /\ UNCHANGED buffered
     ELSE /\ buffered' = buffered \ row
          /\ call' = [call EXCEPT ![i] =
                        [@ EXCEPT !.pc = "drainFind", !.expected = @ + 1]]
  /\ UNCHANGED <<rockets, messages, transitions, pre, script>>

\* ------------------------------------------------------ storage failures
\* the steps of processMessage proper, and those of processBufferedMessages
LiveSteps == {"checkProcessed", "checkBuffered", "loadRocket", "auditStale",
              "bufferFuture", "applyLive", "auditLive"}
DrainSteps == {"drainFind", "drainLoad", "drainApply", "drainAudit", "drainDelete"}

Faults == { j \in Calls : call[j].pc # "idle" /\ call[j].fault # "none" }

\* the repository call of the step call i is at rejects (applyStateChange
\* calls the repository only to create or update)
StorageCallPending(i) ==
  /\ call[i].pc \in LiveSteps \cup DrainSteps
  /\ Cardinality(Faults) < MaxFaults
  /\ call[i].pc = "applyLive" =>
       StateChange(call[i].rocket, call[i].msg).op \in {"create", "update"}
  /\ call[i].pc = "drainApply" =>
       StateChange(call[i].rocket, Reconstruct(CHOOSE x \in call[i].buf : TRUE)).op
         \in {"create", "update"}

\* the history entry of an applyStateChange invocation whose repository
\* call rejected
FailedTransitions(i) ==
  LET none == [ok |-> FALSE, tbl |-> rockets, wrote |-> FALSE] IN
  CASE call[i].pc = "applyLive" ->
         Append(transitions, Transition(i, call[i].rocket, call[i].msg, "live", none))
    [] call[i].pc = "drainApply" ->
         Append(transitions,
                Transition(i, call[i].rocket, Reconstruct(CHOOSE x \in call[i].buf : TRUE),
                           "drain", none))
    [] OTHER -> transitions

\* mutant: the catch block of processMessage logs and returns
FailLiveSwallowed(i) ==
  /\ call[i].pc \in LiveSteps
  /\ StorageCallPending(i)
  /\ call' = [call EXCEPT ![i] = [Finish(@, "returned") EXCEPT !.fault = call[i].pc]]
  /\ transitions' = FailedTransitions(i)
  /\ UNCHANGED <<tables, pre, script>>

\* lines 113-120: a repository call of the live path rejects; the error is
\* logged and rethrown
FailLive(i) ==
  /\ call[i].pc \in LiveSteps
  /\ StorageCallPending(i)
  /\ call' = [call EXCEPT ![i] = [Finish(@, "error") EXCEPT !.fault = call[i].pc]]
  /\ transitions' = FailedTransitions(i)
  /\ UNCHANGED <<tables, pre, script>>

\* mutant: the catch block of processBufferedMessages rethrows
FailDrainRethrow(i) ==
  /\ call[i].pc \in DrainSteps
  /\ StorageCallPending(i)
  /\ call' = [call EXCEPT ![i] = [Finish(@, "error") EXCEPT !.fault = call[i].pc]]
  /\ transitions' = FailedTransitions(i)
  /\ UNCHANGED <<tables, pre, script>>

\* mutant: a failed drain undoes the audit row of the triggering message
FailDrainRollback(i) ==
  /\ call[i].pc \in DrainSteps
  /\ StorageCallPending(i)
  /\ call' = [call EXCEPT ![i] = [@ EXCEPT !.pc = "done", !.fault = call[i].pc]]
  /\ transitions' = FailedTransitions(i)
  /\ messages' = messages \ {MessageData(call[i].msg)}
  /\ UNCHANGED <<rockets, buffered, pre, script>>

\* lines 200-206: a repository call of the drain rejects; the error is
\* logged and not rethrown, processMessage returns normally
FailDrain(i) ==
  /\ call[i].pc \in DrainSteps
  /\ StorageCallPending(i)
  /\ call' = [call EXCEPT ![i] = [@ EXCEPT !.pc = "done", !.fault = call[i].pc]]
  /\ transitions' = FailedTransitions(i)
  /\ UNCHANGED <<tables, pre, script>>

\* one step of call i after its arrival
Step(i) ==
  \/ CheckProcessed(i)
  \/ CheckBuffered(i)
  \/ LoadRocket(i)
  \/ AuditStale(i)
  \/ BufferFuture(i)
  \/ ApplyLive(i)
  \/ AuditLive(i)
  \/ DrainFind(i)
  \/ DrainLoad(i)
  \/ DrainApply(i)
  \/ DrainAudit(i)
  \/ DrainDelete(i)

\* --------------------------------------------------------- specifications
NoTables == [rockets |-> {}, messages |-> {}, buffered |-> {}, mark |-> 0]

Init ==
  /\ rockets = {}
  /\ messages = {}
  /\ buffered = {}
  /\ call = [i \in Calls |-> Idle]
  /\ transitions = <<>>
  /\ pre = NoTables
  /\ script = <<>>

\* a scripted run: one event per sequence number 1..MaxSeq of one channel
Scripts ==
  { s \in [SeqNums -> IncomingMessages] :
      \A n \in SeqNums : s[n].metadata.messageNumber = n
                         /\ s[n].metadata.channel = s[1].metadata.channel }

InitScripted ==
  /\ rockets = {}
  /\ messages = {}
  /\ buffered = {}
  /\ call = [i \in Calls |-> Idle]
  /\ transitions = <<>>
  /\ pre = NoTables
  /\ script \in Scripts

\* calls interleave at every repository await
Next == \E i \in Calls : Receive(i) \/ Step(i)
Spec == Init /\ [][Next]_vars

\* one call at a time
NextSequential == \E i \in Calls : ReceiveSequential(i) \/ Step(i)
SpecSequential == Init /\ [][NextSequential]_vars

\* one call at a time, the events 1..MaxSeq once each in any order
NextScripted == \E i \in Calls : ReceiveScripted(i) \/ Step(i)
SpecScripted == InitScripted /\ [][NextScripted]_vars

\* one call at a time, any repository call may reject
NextFaulty == \E i \in Calls : ReceiveSequential(i) \/ Step(i) \/ FailLive(i) \/ FailDrain(i)
SpecFaulty == Init /\ [][NextFaulty]_vars

\* one call at a time, on either of two channels
NextTwoChannels == \E i \in Calls : ReceiveTwoChannels(i) \/ Step(i)
SpecTwoChannels == Init /\ [][NextTwoChannels]_vars

\* one call at a time, made directly with any message
NextDirect == \E i \in Calls : ReceiveDirect(i) \/ Step(i)
SpecDirect == Init /\ [][NextDirect]_vars

\* one call at a time; a call whose awaited repository promise has settled
\* is resumed by the event loop
SpecSequentialFair == SpecSequential /\ \A i \in Calls : WF_vars(Step(i))

TypeOK ==
  /\ \A r \in rockets : r.currentSpeed \in Nat
  /\ \A i \in Calls : call[i].pc # "idle" => call[i].msg \in IncomingMessages

\* ------------------------------------------- one call, run to completion
\* processBufferedMessages(channel, expectedMessageNumber) run without
\* interruption on the tables t = [rockets, messages, buffered]
RECURSIVE ProcessBufferedMessages(_, _, _)
ProcessBufferedMessages(t, channel, expectedMessageNumber) ==
  LET found == BufferedFindUnique(t.buffered, channel, expectedMessageNumber) IN
  IF found = {} THEN t
  ELSE
    LET b == CHOOSE x \in found : TRUE
        rocket == RocketFindByChannel(t.rockets, channel)
        res == ApplyStateChange(t.rockets, rocket, Reconstruct(b))
    IN
    IF rocket = {} THEN [t EXCEPT !.buffered = @ \ found]
    ELSE IF ~res.ok THEN t
    ELSE IF MessageFindUnique(t.messages, b.channel, b.messageNumber) # {}
      THEN [t EXCEPT !.rockets = res.tbl]
    ELSE ProcessBufferedMessages(
           [rockets |-> res.tbl,
            messages |-> t.messages \cup {BufferedAuditData(b)},
            buffered |-> t.buffered \ found],
           channel, expectedMessageNumber + 1)

\* processMessage(im) run without interruption on the tables t; id is the
\* key a bufferedMessage row gets
ProcessMessage(t, im, id) ==
  LET c == im.metadata.channel
      n == im.metadata.messageNumber
      rocket == RocketFindByChannel(t.rockets, c)
      branch == Ordering(rocket, n)
      res == ApplyStateChange(t.rockets, rocket, im)
  IN
  IF MessageFindUnique(t.messages, c, n) # {} THEN t
  ELSE IF BufferedFindUnique(t.buffered, c, n) # {} THEN t
  ELSE IF branch = "stale" THEN [t EXCEPT !.messages = @ \cup {MessageData(im)}]
  ELSE IF branch = "future"
    THEN [t EXCEPT !.buffered = @ \cup {MessageData(im) @@ [id |-> id]}]
  ELSE IF ~res.ok THEN t
  ELSE ProcessBufferedMessages(
         [rockets |-> res.tbl,
          messages |-> t.messages \cup {MessageData(im)},
          buffered |-> t.buffered],
         c, n + 1)

\* how processMessage(im), run without interruption on the tables t, ends
Outcome(t, im) ==
  LET c == im.metadata.channel
      n == im.metadata.messageNumber
      rocket == RocketFindByChannel(t.rockets, c)
      branch == Ordering(rocket, n)
  IN
  IF MessageFindUnique(t.messages, c, n) # {} THEN "duplicate"
  ELSE IF BufferedFindUnique(t.buffered, c, n) # {} THEN "duplicate"
  ELSE IF branch = "stale" THEN "stale"
  ELSE IF branch = "future" THEN "buffered"
  ELSE IF ApplyStateChange(t.rockets, rocket, im).ok THEN "applied"
  ELSE ThrownError(im)

\* the events n..MaxSeq of the script submitted in the order n, n+1, ...
RECURSIVE SubmitInOrder(_, _)
SubmitInOrder(t, n) ==
  IF n > MaxSeq THEN t
  ELSE SubmitInOrder(ProcessMessage(t, script[n], n), n + 1)

Tables == [rockets |-> rockets, messages |-> messages, buffered |-> buffered]
Empty == [rockets |-> {}, messages |-> {}, buffered |-> {}]

\* the attributes of an entity the ordering claims compare
EntityState(r) ==
  [channel |-> r.channel, type |-> r.type, currentSpeed |-> r.currentSpeed,
   mission |-> r.mission, status |-> r.status,
   explosionReason |-> r.explosionReason,
   lastMessageNumber |-> r.lastMessageNumber]

Started == { i \in Calls : call[i].pc # "idle" }
\* every event of the script has been submitted and its call has ended
ScriptDone == Submitted = SeqNums /\ NoCallRunning

\* the call of a sequential run that arrived last
Latest == CHOOSE i \in Started : \A j \in Started : j <= i
LatestDone == Started # {} /\ NoCallRunning

HasMessage(tbl, c, n) == \E m \in tbl : m.channel = c /\ m.messageNumber = n
HasBuffered(tbl, c, n) == \E b \in tbl : b.channel = c /\ b.messageNumber = n

\* In a sequential run the steps of a call add up to ProcessMessage.
StepsMatchProcessMessage ==
  LatestDone =>
    Tables = ProcessMessage([rockets |-> pre.rockets, messages |-> pre.messages,
                             buffered |-> pre.buffered],
                            call[Latest].msg, Latest)

\* ------------------------------------------------------------------ claims

\* C1 (as claimed): reordering invariance.  Once the events 1..MaxSeq of a
\* channel have each been submitted once, in whatever order, the channel's
\* entity (type, speed, mission, status, explosion reason,
\* lastMessageNumber) is the one that submitting them in the order
\* 1, 2, ..., MaxSeq produces.
C1_ReorderingInvariance ==
  ScriptDone =>
    { EntityState(r) : r \in rockets }
      = { EntityState(r) : r \in SubmitInOrder(Empty, 1).rockets }

\* number of invocations of applyStateChange for (c, n) that wrote the entity
Writes(c, n) ==
  Cardinality({ k \in 1..Len(transitions) :
                  /\ transitions[k].channel = c
                  /\ transitions[k].messageNumber = n
                  /\ transitions[k].wrote })

\* C2 (as claimed): exactly-once under concurrency.  Whatever the
\* interleaving of the storage steps of concurrent calls, the state change
\* of a (channel, messageNumber) is written to the entity at most once.
C2_AppliedAtMostOnce ==
  \A c \in Channels, n \in SeqNums : Writes(c, n) <= 1

\* C3: idempotence.  A call that arrives after its (channel, messageNumber)
\* has been applied and audited - whatever payload it carries, however many
\* such calls there are, whatever else runs at the same time - ends as a
\* duplicate: it never reaches applyStateChange, the audit write, the buffer
\* insert or the drain, so it changes no entity.
C3_Idempotence ==
  \A i \in Started :
    call[i].late =>
      /\ call[i].pc \in {"checkProcessed", "done"}
      /\ call[i].outcome \in {"running", "duplicate"}
      /\ \A k \in 1..Len(transitions) : transitions[k].call # i

\* C3 witness: a second event with the sequence number of an applied one,
\* carrying another payload, has been submitted and has ended.
C3_Witness ==
  \E i \in Started, j \in Started :
    /\ j < i
    /\ call[i].late
    /\ call[i].pc = "done"
    /\ call[j].outcome = "applied"
    /\ MessageNumber(i) = MessageNumber(j)
    /\ call[i].msg # call[j].msg
    /\ rockets # {}

\* C4 (as claimed): stale events.  When the rocket a call loads has
\* lastMessageNumber >= the message's number, the call does not write the
\* entity, and when it returns a message row of (channel, messageNumber)
\* exists.
C4_StaleNeverApplied ==
  /\ \A k \in 1..Len(transitions) :
       (transitions[k].path = "live" /\ transitions[k].had
          /\ transitions[k].messageNumber <= transitions[k].last)
         => ~transitions[k].wrote
  /\ \A i \in Started :
       (call[i].pc = "done" /\ call[i].rocket # {}
          /\ \E r \in call[i].rocket : MessageNumber(i) <= r.lastMessageNumber)
         => HasMessage(messages, Channel(i), MessageNumber(i))

\* C5 precondition, on the tables the latest call found when it arrived:
\* the entity exists, the message is more than one ahead of it, and neither
\* table holds its (channel, messageNumber).
FutureArrival(i) ==
  /\ \E r \in RocketFindByChannel(pre.rockets, Channel(i)) :
       MessageNumber(i) > r.lastMessageNumber + 1
  /\ ~HasMessage(pre.messages, Channel(i), MessageNumber(i))
  /\ ~HasBuffered(pre.buffered, Channel(i), MessageNumber(i))

\* C5: future events.  A call whose message is more than one ahead of an
\* existing entity, and is in neither table, never touches the rocket or
\* the message table nor reaches applyStateChange; it returns normally
\* having inserted exactly one bufferedMessage row, the one of its message.
C5_FutureBuffered ==
  (Started # {} /\ FutureArrival(Latest)) =>
    /\ rockets = pre.rockets
    /\ messages = pre.messages
    /\ Len(transitions) = pre.mark
    /\ IF call[Latest].pc = "done"
       THEN /\ call[Latest].outcome = "buffered"
            /\ \E b \in buffered :
                 /\ b \notin pre.buffered
                 /\ buffered = pre.buffered \cup {b}
                 /\ BufferedAuditData(b) = MessageData(call[Latest].msg)
       ELSE buffered = pre.buffered

\* C5 witness: such a call has returned, with an older row still buffered.
C5_Witness ==
  /\ Started # {}
  /\ FutureArrival(Latest)
  /\ call[Latest].pc = "done"
  /\ pre.buffered # {}
  /\ Cardinality(buffered) = Cardinality(pre.buffered) + 1

\* the number of bufferedMessage rows of channel c that follow sequence
\* number n without a gap, in the tables the latest call found
RECURSIVE Contiguous(_, _)
Contiguous(c, n) ==
  IF HasBuffered(pre.buffered, c, n + 1) THEN 1 + Contiguous(c, n + 1) ELSE 0

Launch1 == IncomingMessage("c1", 1, TimeString(1),
             <<ROCKET_LAUNCHED, [type |-> "Falcon-9", launchSpeed |-> 500, mission |-> "ARTEMIS"]>>)
Increase(n, by) == IncomingMessage("c1", n, TimeString(n), <<ROCKET_SPEED_INCREASED, [by |-> by]>>)

\* C6: gap fill.  When a call applies event N, the buffered events N+1,
\* N+2, ... up to the first missing one go through applyStateChange in
\* ascending order within that call, each gets its message row and loses
\* its bufferedMessage row, and no other buffered row is touched; e.g.
\* Create(1), SpeedIncrease(3, by 1000) buffered, SpeedIncrease(2, by 500)
\* ends with speed 500 + 1500 and lastMessageNumber 3.
C6_GapFill ==
  (LatestDone /\ call[Latest].outcome = "applied") =>
    LET c == Channel(Latest)
        n == MessageNumber(Latest)
        k == Contiguous(c, n)
        drained == { b \in pre.buffered :
                       b.channel = c /\ b.messageNumber \in (n + 1)..(n + k) }
    IN
    /\ Len(transitions) = pre.mark + 1 + k
    /\ \A j \in 0..k :
         LET tr == transitions[pre.mark + 1 + j] IN
         /\ tr.messageNumber = n + j
         /\ tr.channel = c
         /\ tr.ok
         /\ tr.path = IF j = 0 THEN "live" ELSE "drain"
    /\ \A b \in drained : BufferedAuditData(b) \in messages
    /\ buffered = pre.buffered \ drained
    /\ Cardinality(messages) = Cardinality(pre.messages) + 1 + k
    /\ (Latest = 3 /\ call[1].msg = Launch1 /\ call[2].msg = Increase(3, 1000)
          /\ call[3].msg = Increase(2, 500))
         => \A r \in rockets : r.currentSpeed = 2000 /\ r.lastMessageNumber = 3

\* C6 witness: a call that filled a gap has drained two buffered events.
C6_Witness ==
  /\ LatestDone
  /\ call[Latest].outcome = "applied"
  /\ Contiguous(Channel(Latest), MessageNumber(Latest)) >= 2
  /\ buffered = {}

\* C7: a buffered event is never applied early.  applyStateChange is never
\* handed an existing rocket and a message while a sequence number between
\* that rocket's lastMessageNumber and the message's has no message row; and
\* a bufferedMessage row stays in the buffer across every step that leaves
\* such a sequence number without a message row.
C7_NeverAppliedEarly ==
  [][ /\ \A k \in 1..Len(transitions') :
           transitions'[k].had => ~transitions'[k].gap
      /\ \A b \in buffered :
           (\E r \in RocketFindByChannel(rockets', b.channel) :
              \E k \in (r.lastMessageNumber + 1)..(b.messageNumber - 1) :
                ~HasMessage(messages', b.channel, k))
             => b \in buffered'
    ]_vars

\* C7 witness: an event buffered by the second call is still buffered
\* behind a missing sequence number after a later event has been applied.
C7_Witness ==
  /\ LatestDone
  /\ Latest >= 3
  /\ call[Latest].outcome = "applied"
  /\ \E b \in buffered :
       /\ b.id = 2
       /\ ~HasMessage(messages, b.channel, b.messageNumber - 1)

\* C8 (as claimed): no event is lost or blocked forever.  When the Create
\* event has sequence number 1 and is submitted first, then once every
\* sequence number 1..MaxSeq has been submitted every one has a message row
\* and no bufferedMessage row is left.
C8_NoEventLost ==
  (ScriptDone /\ MessageNumber(1) = 1
     /\ call[1].msg.metadata.messageType = ROCKET_LAUNCHED) =>
    /\ \A n \in SeqNums : HasMessage(messages, Channel(1), n)
    /\ buffered = {}

\* C9 (as claimed): after Terminate.  With Create(1) and the events 2, 3,
\* ... submitted in order, once a RocketExploded has been applied every
\* later SpeedIncrease / SpeedDecrease / MissionChange leaves type, speed,
\* mission, status and reason as they were, moves lastMessageNumber to its
\* own number and gets a message row.
C9_AfterTerminate ==
  \A i \in Started :
    ( /\ call[i].pc = "done"
      /\ i = Latest
      /\ \A j \in 1..i : MessageNumber(j) = j
      /\ call[1].msg.metadata.messageType = ROCKET_LAUNCHED
      /\ \E t \in 2..(i - 1) : call[t].msg.metadata.messageType = ROCKET_EXPLODED
      /\ call[i].msg.metadata.messageType
           \in {ROCKET_SPEED_INCREASED, ROCKET_SPEED_DECREASED, ROCKET_MISSION_CHANGED} )
    =>
      /\ \A r \in rockets :
           /\ \E q \in pre.rockets :
                EntityState(q) = [EntityState(r) EXCEPT !.lastMessageNumber = q.lastMessageNumber]
           /\ r.lastMessageNumber = i
           /\ r.status = EXPLODED /\ r.currentSpeed = 0
      /\ HasMessage(messages, Channel(i), i)

\* C10 (as claimed): every successful applyStateChange, on the live and on
\* the drain path, leaves the entity with lastMessageNumber = the message's
\* number and lastMessageTime = the message's time.
C10_LastAppliedStamped ==
  \A i \in Started :
    /\ call[i].pc = "auditLive" =>
         \A r \in RocketFindByChannel(rockets, Channel(i)) :
           /\ r.lastMessageNumber = MessageNumber(i)
           /\ r.lastMessageTime = ParseDate(call[i].msg.metadata.messageTime)
    /\ call[i].pc = "drainAudit" =>
         \A b \in call[i].buf :
           \A r \in RocketFindByChannel(rockets, b.channel) :
             /\ r.lastMessageNumber = b.messageNumber
             /\ r.lastMessageTime = b.messageTime

\* C11 (as claimed): exploded rockets are final.  Across every step, a
\* rocket whose status is EXPLODED is still there afterwards with status
\* EXPLODED and currentSpeed 0, whatever is submitted or drained.
C11_ExplodedFinal ==
  [][ \A r \in rockets :
        r.status = EXPLODED =>
          /\ RocketFindByChannel(rockets', r.channel) # {}
          /\ \A q \in RocketFindByChannel(rockets', r.channel) :
               q.status = EXPLODED /\ q.currentSpeed = 0
    ]_vars

\* the attributes the terminal-state claims speak of
DomainAttributes(r) ==
  [type |-> r.type, currentSpeed |-> r.currentSpeed, mission |-> r.mission,
   status |-> r.status, explosionReason |-> r.explosionReason]

ApplyingMessage(i) ==
  IF call[i].pc = "applyLive" THEN call[i].msg
  ELSE Reconstruct(CHOOSE x \in call[i].buf : TRUE)

C13_SpeedNonNegative ==
  \A r \in rockets : r.currentSpeed >= 0

\* C13 witness: a RocketSpeedDecreased by more than the launch speed has
\* been applied to the freshly launched rocket, which is left at speed 0.
C13_Witness ==
  /\ Len(transitions) = 2
  /\ transitions[1].messageType = ROCKET_LAUNCHED
  /\ transitions[2].messageType = ROCKET_SPEED_DECREASED
  /\ transitions[2].wrote
  /\ \E r \in rockets : r.status = ACTIVE /\ r.currentSpeed = 0

\* C14: uniqueness.  After any sequence of calls there is at most one
\* rocket per channel, at most one message row and at most one
\* bufferedMessage row per (channel, messageNumber); and when the very same
\* RocketLaunched(1) is submitted twice both calls return normally and
\* there is one rocket and one message row.
C14_Uniqueness ==
  /\ \A r \in rockets, q \in rockets : r.channel = q.channel => r = q
  /\ \A m \in messages, x \in messages :
       (m.channel = x.channel /\ m.messageNumber = x.messageNumber) => m = x
  /\ \A b \in buffered, x \in buffered :
       (b.channel = x.channel /\ b.messageNumber = x.messageNumber) => b = x
  /\ (LatestDone /\ Latest = 2 /\ call[1].msg = Launch1 /\ call[2].msg = Launch1) =>
       /\ call[1].outcome = "applied"
       /\ call[2].outcome = "duplicate"
       /\ Cardinality(rockets) = 1
       /\ Cardinality(messages) = 1
       /\ buffered = {}

\* C14 witness: RocketLaunched(1) has been submitted twice, and a third
\* call has re-submitted a sequence number under another payload.
C14_Witness ==
  /\ LatestDone
  /\ Latest = 3
  /\ call[1].msg = Launch1
  /\ call[2].msg = Launch1
  /\ MessageNumber(3) = 1
  /\ call[3].msg # Launch1
  /\ Cardinality(messages) = 1

\* the tables call i found on arrival hold a message row or a
\* bufferedMessage row of its (channel, messageNumber)
DuplicateArrival(i) ==
  \/ HasMessage(pre.messages, Channel(i), MessageNumber(i))
  \/ HasBuffered(pre.buffered, Channel(i), MessageNumber(i))

\* C15: a duplicate submission is a pure no-op.  A call whose (channel,
\* messageNumber) already has a message row or a bufferedMessage row never
\* gets past the two duplicate checks, never reaches applyStateChange,
\* returns normally, and leaves the three tables exactly as it found them.
C15_DuplicateNoOp ==
  (Started # {} /\ DuplicateArrival(Latest)) =>
    /\ rockets = pre.rockets
    /\ messages = pre.messages
    /\ buffered = pre.buffered
    /\ Len(transitions) = pre.mark
    /\ call[Latest].pc \in {"checkProcessed", "checkBuffered", "done"}
    /\ call[Latest].pc = "done" => call[Latest].outcome = "duplicate"

\* C15 witness: a call whose sequence number is in the buffer, under
\* another payload than the one it carries, has returned.
C15_Witness ==
  /\ LatestDone
  /\ ~HasMessage(pre.messages, Channel(Latest), MessageNumber(Latest))
  /\ \E b \in pre.buffered :
       /\ b.channel = Channel(Latest)
       /\ b.messageNumber = MessageNumber(Latest)
       /\ b.payload # JSONStringify(call[Latest].msg.message)
  /\ call[Latest].outcome = "duplicate"

\* the latest call carries an event that needs a rocket and found none
NoRocketArrival(i) ==
  /\ RocketFindByChannel(pre.rockets, Channel(i)) = {}
  /\ call[i].msg.metadata.messageType
       \in {ROCKET_SPEED_INCREASED, ROCKET_SPEED_DECREASED,
            ROCKET_EXPLODED, ROCKET_MISSION_CHANGED}

\* C16: EntityNotFound on the live path.  A call with a
\* RocketSpeedIncreased, RocketSpeedDecreased, RocketExploded or
\* RocketMissionChanged for a channel without a rocket ends by throwing
\* 'Rocket not found' to its caller, and creates no rocket, no message row
\* and no bufferedMessage row.
C16_RocketNotFound ==
  (Started # {} /\ NoRocketArrival(Latest)) =>
    /\ rockets = pre.rockets
    /\ messages = pre.messages
    /\ buffered = pre.buffered
    /\ call[Latest].pc \in {"checkProcessed", "checkBuffered", "loadRocket", "applyLive", "done"}
    /\ call[Latest].pc = "done" =>
         /\ call[Latest].outcome = "rocketNotFound"
         /\ Len(transitions) = pre.mark + 1
         /\ ~transitions[Len(transitions)].ok
         /\ ~transitions[Len(transitions)].had

\* C16 witness: a RocketExploded for a channel without a rocket has failed,
\* after an earlier call failed the same way.
C16_Witness ==
  /\ LatestDone
  /\ Latest >= 2
  /\ NoRocketArrival(Latest)
  /\ call[Latest].msg.metadata.messageType = ROCKET_EXPLODED
  /\ call[Latest].outcome = "rocketNotFound"
  /\ call[1].outcome = "rocketNotFound"

\* C17: a storage failure on the live path fails the call.  When the
\* repository call of a live-path step rejects - either duplicate check,
\* the rocket load, the rocket create / update, the audit write or the
\* buffer insert - processMessage stops there and throws to its caller;
\* no row is written after the failure (only a rocket write that came
\* before a failed audit write stays).
C17_LiveFailurePropagates ==
  \A i \in Started :
    call[i].fault \in LiveSteps =>
      /\ call[i].pc = "done"
      /\ call[i].outcome = "error"
      /\ i = Latest =>
           /\ messages = pre.messages
           /\ buffered = pre.buffered
           /\ rockets =
                IF call[i].fault = "auditLive"
                THEN ApplyStateChange(pre.rockets,
                                      RocketFindByChannel(pre.rockets, Channel(i)),
                                      call[i].msg).tbl
                ELSE pre.rockets

\* C17 witness: the audit write of an applied event failed after the rocket
\* had been updated; the call has thrown.
C17_Witness ==
  /\ LatestDone
  /\ call[Latest].fault = "auditLive"
  /\ call[Latest].outcome = "error"
  /\ rockets # pre.rockets
  /\ pre.rockets # {}

\* C18 (as claimed): a storage failure is never swallowed.  Whatever step
\* of a processMessage call a repository call rejects in, the drain's
\* steps included, the call throws to its caller.
C18_NeverSwallowed ==
  \A i \in Started :
    call[i].fault # "none" => call[i].outcome = "error"

\* C18 (amended): a storage failure is propagated to the caller exactly
\* when it occurs in a live-path step; a rejection of a repository call
\* made while draining (buffer lookup, rocket load, rocket update, audit
\* write, buffer delete) is caught in processBufferedMessages, ends the
\* drain, and the call returns normally.
C18_SwallowedOnlyInDrain ==
  \A i \in Started :
    call[i].fault # "none" =>
      /\ call[i].pc = "done"
      /\ call[i].outcome = "error" <=> call[i].fault \in LiveSteps
      /\ call[i].outcome = "applied" <=> call[i].fault \in DrainSteps

\* C18 witness: the audit write of a drained event failed; the call that
\* triggered the drain has returned normally, the rocket carries the drained
\* event's update and its bufferedMessage row is still there.
C18_Witness ==
  /\ LatestDone
  /\ call[Latest].fault = "drainAudit"
  /\ call[Latest].outcome = "applied"
  /\ \E b \in buffered, r \in rockets :
       /\ b.messageNumber = MessageNumber(Latest) + 1
       /\ r.lastMessageNumber = b.messageNumber
       /\ ~HasMessage(messages, b.channel, b.messageNumber)

\* the latest call got past the audit write of its own event
AppliedAndAudited(i) ==
  \/ call[i].pc \in DrainSteps
  \/ /\ call[i].pc = "done"
     /\ call[i].fault \notin LiveSteps
     /\ Len(transitions) > pre.mark
     /\ transitions[pre.mark + 1].ok

C20_ConsistentDecisions ==
  ( /\ \A i \in 1..3 : call[i].pc = "done"
    /\ call[1].msg = Launch1
    /\ call[1].outcome = "applied"
    /\ \E a \in {2, 3}, b \in {2, 3} :
         /\ a # b
         /\ call[a].msg = Increase(2, 500)
         /\ call[b].msg = Increase(3, 500)
         /\ call[a].rocket # {}
         /\ call[b].rocket # {} )
  =>
    /\ \A r \in rockets : r.lastMessageNumber = 3
    /\ buffered = {}

\* C21 (as claimed): no lost update.  Under any interleaving of concurrent
\* calls on a channel, no step lowers the rocket's lastMessageNumber, and
\* every step in which applyStateChange writes the rocket computes the
\* write from the rocket as it is stored at that moment.
C21_NoLostUpdate ==
  [][ /\ \A r \in rockets :
           \A q \in RocketFindByChannel(rockets', r.channel) :
             q.lastMessageNumber >= r.lastMessageNumber
      /\ \A i \in Calls :
           ( /\ call[i].pc \in {"applyLive", "drainApply"}
             /\ call'[i].pc # call[i].pc
             /\ rockets' # rockets )
           => call[i].rocket = RocketFindByChannel(rockets, Channel(i))
    ]_vars

\* C22 (as claimed): the rocket write and the audit write form one unit.
\* When a call has ended, normally or with a storage error at any step,
\* every event it put through applyStateChange successfully has its
\* message row, and every message row it wrote outside the stale branch
\* belongs to an event it put through applyStateChange successfully.
C22_WriteAuditUnit ==
  LatestDone =>
    /\ \A k \in (pre.mark + 1)..Len(transitions) :
         transitions[k].ok =>
           HasMessage(messages, transitions[k].channel, transitions[k].messageNumber)
    /\ \A m \in messages \ pre.messages :
         call[Latest].outcome # "stale" =>
           \E k \in (pre.mark + 1)..Len(transitions) :
             /\ transitions[k].ok
             /\ transitions[k].channel = m.channel
             /\ transitions[k].messageNumber = m.messageNumber

\* C23 (as claimed): safe re-drive.  When a call for an event failed at the
\* audit write, after its rocket write, and the same event is submitted
\* again (no other call carrying its sequence number), the second call
\* ends normally with the event's message row written, and the event's
\* state change has been written to the rocket once, not twice.
C23_SafeRedrive ==
  ( /\ LatestDone
    /\ \E j \in 1..(Latest - 1) :
         /\ call[j].msg = call[Latest].msg
         /\ call[j].fault = "auditLive"
         /\ \A k \in Started \ {j, Latest} : MessageNumber(k) # MessageNumber(Latest) )
  =>
    /\ call[Latest].outcome \in {"applied", "duplicate", "stale"}
    /\ HasMessage(messages, Channel(Latest), MessageNumber(Latest))
    /\ Writes(Channel(Latest), MessageNumber(Latest)) <= 1

\* the rows of channel c in the tables t
Restrict(t, c) ==
  [rockets |-> { r \in t.rockets : r.channel = c },
   messages |-> { m \in t.messages : m.channel = c },
   buffered |-> { b \in t.buffered : b.channel = c }]

\* C24: channel independence.  A call for channel A leaves the rocket, the
\* message rows and the bufferedMessage rows of every other channel as
\* they were, at every step; and what it does to the rows of A and how it
\* ends are what processMessage does on the rows of A alone.
C24_ChannelIndependence ==
  Started # {} =>
    LET i == Latest
        A == Channel(i)
        found == [rockets |-> pre.rockets, messages |-> pre.messages,
                  buffered |-> pre.buffered]
    IN
    /\ \A B \in TwoChannels \ {A} : Restrict(Tables, B) = Restrict(found, B)
    /\ call[i].pc = "done" =>
         /\ Restrict(Tables, A) = ProcessMessage(Restrict(found, A), call[i].msg, i)
         /\ call[i].outcome = Outcome(Restrict(found, A), call[i].msg)

\* C24 witness: channel c2 has a rocket and a buffered event 3; an event 3
\* for channel c1, which has no rocket, has been submitted and has failed.
C24_Witness ==
  /\ LatestDone
  /\ Channel(Latest) = "c1"
  /\ MessageNumber(Latest) = 3
  /\ call[Latest].outcome = "rocketNotFound"
  /\ \E r \in rockets : r.channel = "c2"
  /\ \E b \in buffered : b.channel = "c2" /\ b.messageNumber = 3

\* C25: a processMessage call whose messageType is outside the five known
\* kinds ends with an error to its caller, whatever the rocket and the
\* sequence number, and no message row and no bufferedMessage row of an
\* unknown type exists.
C25_UnknownKindFails ==
  /\ \A i \in Started :
       (call[i].pc = "done" /\ call[i].msg.metadata.messageType \notin MessageTypes)
         => call[i].outcome \in {"unknownType", "error"}
  /\ \A m \in messages : m.messageType \in MessageTypes
  /\ \A b \in buffered : b.messageType \in MessageTypes

\* ---------------------------------------------- runs on a launched rocket
\* the tables, and the history, after processMessage(Launch1) on an empty
\* store
Launched == ProcessMessage(Empty, Launch1, 0)

InitLaunched ==
  /\ rockets = Launched.rockets
  /\ messages = Launched.messages
  /\ buffered = Launched.buffered
  /\ call = [i \in Calls |-> Idle]
  /\ transitions = << [call |-> 0, channel |-> "c1", messageNumber |-> 1,
                       messageType |-> ROCKET_LAUNCHED, path |-> "live",
                       had |-> FALSE, last |-> 0, gap |-> FALSE,
                       ok |-> TRUE, wrote |-> TRUE] >>
  /\ pre = NoTables
  /\ script = <<>>

\* one call at a time on a launched rocket, any repository call may reject
SpecRecovery == InitLaunched /\ [][NextFaulty]_vars

\* C26: one bad buffered record cannot block a channel.  After a drain
\* step for a buffered event failed and the error was absorbed, an event
\* submitted next in order for the channel (its number is the rocket's
\* lastMessageNumber + 1 when it arrives, and it has no message row yet) is
\* applied: when its call has ended it has its message row and the rocket
\* has moved on to it.
C26_ChannelNotBlocked ==
  ( /\ LatestDone
    /\ \E j \in 1..(Latest - 1) :
         call[j].fault \in DrainSteps \ {"drainFind"} /\ call[j].buf # {}
    /\ ~HasMessage(pre.messages, Channel(Latest), MessageNumber(Latest))
    /\ \E r \in pre.rockets :
         r.channel = Channel(Latest) /\ MessageNumber(Latest) = r.lastMessageNumber + 1 )
  => /\ HasMessage(messages, Channel(Latest), MessageNumber(Latest))
     /\ \A r \in RocketFindByChannel(rockets, Channel(Latest)) :
          r.lastMessageNumber >= MessageNumber(Latest)

\* ------------------------------------------------- the validated route
\* the payload schemas (z.object: the listed keys with their constraints;
\* other keys are allowed and stripped)
RocketLaunchedSchema(m) ==
  /\ {"type", "launchSpeed", "mission"} \subseteq DOMAIN m
  /\ m.type # ""
  /\ m.launchSpeed \in Nat
  /\ m.mission # ""
RocketSpeedIncreasedSchema(m) == "by" \in DOMAIN m /\ m.by \in Nat \ {0}
RocketSpeedDecreasedSchema(m) == "by" \in DOMAIN m /\ m.by \in Nat \ {0}
RocketExplodedSchema(m) == "reason" \in DOMAIN m /\ m.reason # ""
RocketMissionChangedSchema(m) == "newMission" \in DOMAIN m /\ m.newMission # ""

\* the value a z.object schema with these keys returns
Strip(m, keys) == [f \in keys |-> m[f]]

\* message: z.union([...]): the result of the first schema that accepts
\* the payload, whatever metadata.messageType says ({} is a ZodError)
MessageUnion(m) ==
  IF RocketLaunchedSchema(m) THEN {Strip(m, {"type", "launchSpeed", "mission"})}
  ELSE IF RocketSpeedIncreasedSchema(m) THEN {Strip(m, {"by"})}
  ELSE IF RocketSpeedDecreasedSchema(m) THEN {Strip(m, {"by"})}
  ELSE IF RocketExplodedSchema(m) THEN {Strip(m, {"reason"})}
  ELSE IF RocketMissionChangedSchema(m) THEN {Strip(m, {"newMission"})}
  ELSE {}

\* a messageTime no Date can be parsed from
InvalidTime == <<0, "invalid">>

MessageMetadataSchema(md) ==
  /\ md.channel \in Channels
  /\ md.messageNumber \in Nat \ {0}
  /\ md.messageTime # InvalidTime
  /\ md.messageType \in MessageTypes

\* validateMessage: next() with req.body replaced by the parsed value, or 400
ValidateMessage(body) ==
  IF MessageMetadataSchema(body.metadata) /\ MessageUnion(body.message) # {}
  THEN [status |-> "next",
        body |-> [metadata |-> body.metadata,
                  message |-> CHOOSE x \in MessageUnion(body.message) : TRUE]]
  ELSE [status |-> "400"]

\* request bodies: well-formed payloads, a well-formed one with a key too
\* many, payloads of another type than the one named, payloads no schema
\* accepts, and envelopes the metadata schema refuses
RequestPayloads ==
  { <<ROCKET_LAUNCHED, [type |-> "Falcon-9", launchSpeed |-> 500, mission |-> "ARTEMIS"]>>,
    <<ROCKET_SPEED_DECREASED, [by |-> 1000]>>,
    <<ROCKET_EXPLODED, [reason |-> "X"]>>,
    <<ROCKET_MISSION_CHANGED, [newMission |-> "SHUTTLE_MIR"]>>,
    <<ROCKET_SPEED_INCREASED, [by |-> 500, note |-> "n"]>>,
    <<ROCKET_EXPLODED, [by |-> 500]>>,
    <<ROCKET_MISSION_CHANGED, [reason |-> "X"]>>,
    <<ROCKET_LAUNCHED, [by |-> 500]>> }

MalformedPayloads ==
  { <<ROCKET_SPEED_INCREASED, [by |-> 0]>>,
    <<ROCKET_SPEED_DECREASED, [by |-> 0 - 500]>>,
    <<ROCKET_LAUNCHED, [type |-> "Falcon-9", launchSpeed |-> 0 - 1, mission |-> "ARTEMIS"]>>,
    <<ROCKET_EXPLODED, [reason |-> ""]>> }

Requests ==
  { IncomingMessage(c, n, TimeString(n), p) : c \in Channels, n \in SeqNums, p \in RequestPayloads }
  \cup
  { IncomingMessage(c, 1, TimeString(1), p) : c \in Channels, p \in MalformedPayloads }
  \cup
  { IncomingMessage("not-a-uuid", 1, TimeString(1), <<ROCKET_SPEED_INCREASED, [by |-> 500]>>),
    IncomingMessage("c1", 0, TimeString(1), <<ROCKET_SPEED_INCREASED, [by |-> 500]>>),
    IncomingMessage("c1", 1, InvalidTime, <<ROCKET_SPEED_INCREASED, [by |-> 500]>>),
    IncomingMessage("c1", 1, TimeString(1), <<"RocketRefuelled", [by |-> 500]>>) }

\* POST /messages, validation passes: receiveMessage calls processMessage
\* with the parsed body
AcceptRequest(i) ==
  /\ i <= MaxCalls
  /\ NoCallRunning
  /\ \E body \in Requests :
       /\ ValidateMessage(body).status = "next"
       /\ Start(i, ValidateMessage(body).body)
  /\ pre' = Snapshot

\* POST /messages, validation fails: 400, receiveMessage is not called
RejectRequest(i) ==
  /\ i <= MaxCalls
  /\ NoCallRunning
  /\ call[i].pc = "idle"
  /\ IF i = 1 THEN TRUE ELSE call[i - 1].pc # "idle"
  /\ \E body \in Requests :
       /\ ValidateMessage(body).status = "400"
       /\ call' = [call EXCEPT ![i] =
                     [pc |-> "done", msg |-> body, rocket |-> {}, buf |-> {},
                      expected |-> 0, outcome |-> "400", fault |-> "none",
                      late |-> FALSE]]
  /\ pre' = Snapshot
  /\ UNCHANGED <<tables, transitions, script>>

\* one request at a time through the validated route
NextGateway == \E i \in Calls : AcceptRequest(i) \/ RejectRequest(i) \/ Step(i)
SpecGateway == Init /\ [][NextGateway]_vars

\* the payload has the shape its own messageType requires
ShapeOfType(im) ==
  LET t == im.metadata.messageType
      m == im.message
  IN
  CASE t = ROCKET_LAUNCHED -> RocketLaunchedSchema(m)
    [] t = ROCKET_SPEED_INCREASED -> RocketSpeedIncreasedSchema(m)
    [] t = ROCKET_SPEED_DECREASED -> RocketSpeedDecreasedSchema(m)
    [] t = ROCKET_EXPLODED -> RocketExplodedSchema(m)
    [] t = ROCKET_MISSION_CHANGED -> RocketMissionChangedSchema(m)
    [] OTHER -> FALSE

\* C27: validation gate.  A request whose payload does not have the shape
\* required by its own messageType is answered 400 by validateMessage: it
\* never becomes a processMessage call, and the rocket, message and
\* bufferedMessage tables are as they were before it.
C27_ValidationGate ==
  /\ \A i \in Started :
       ~ShapeOfType(call[i].msg) => call[i].pc = "done" /\ call[i].outcome = "400"
  /\ (Started # {} /\ ~ShapeOfType(call[Latest].msg)) =>
       /\ rockets = pre.rockets
       /\ messages = pre.messages
       /\ buffered = pre.buffered

\* ------------------------------------------------ rockets that disappear
\* RocketRepository.delete(channel), called by something other than the
\* message processor (which never deletes a rocket)
DeleteRocket(c) ==
  /\ RocketFindByChannel(rockets, c) # {}
  /\ rockets' = rockets \ RocketFindByChannel(rockets, c)
  /\ UNCHANGED <<messages, buffered, call, transitions, pre, script>>

\* one call at a time on a launched rocket, the rocket row may be deleted at
\* any moment
NextAdmin ==
  \/ \E i \in Calls : ReceiveSequential(i) \/ Step(i)
  \/ \E c \in Channels : DeleteRocket(c)
SpecAdmin == InitLaunched /\ [][NextAdmin]_vars

\* C28: drain with missing entity.  When the drain has found the buffered
\* row of the expected number and then finds no rocket for the channel, that
\* step deletes exactly this bufferedMessage row, writes no message row and
\* changes no rocket, ends the drain (later buffered rows stay), and the
\* call ends as a successful apply.
C28_DrainMissingRocket ==
  [][ \A i \in Calls :
        ( /\ call[i].pc = "drainLoad"
          /\ call'[i].pc # "drainLoad"
          /\ RocketFindByChannel(rockets, Channel(i)) = {} )
        => /\ call[i].buf \subseteq buffered
           /\ buffered' = buffered \ call[i].buf
           /\ messages' = messages
           /\ ~HasMessage(messages', Channel(i), call[i].expected)
           /\ rockets' = rockets
           /\ transitions' = transitions
           /\ call'[i].pc = "done"
           /\ call'[i].outcome = "applied"
    ]_vars

\* C28 witness: a call applied its event, its drain found the buffered row
\* of the next number and no rocket; the call is over, that row is gone
\* without a message row, and the buffered row after it is still there.
C28_Witness ==
  /\ LatestDone
  /\ call[Latest].outcome = "applied"
  /\ call[Latest].expected = MessageNumber(Latest) + 1
  /\ call[Latest].buf # {}
  /\ RocketFindByChannel(rockets, Channel(Latest)) = {}
  /\ ~HasBuffered(buffered, Channel(Latest), call[Latest].expected)
  /\ ~HasMessage(messages, Channel(Latest), call[Latest].expected)
  /\ HasBuffered(buffered, Channel(Latest), call[Latest].expected + 1)

\* the sequence numbers call i ran through applyStateChange in its drain
Drained(i) ==
  { transitions[k].messageNumber :
      k \in { x \in 1..Len(transitions) :
                transitions[x].call = i /\ transitions[x].path = "drain" } }

\* C29: the drain is triggered only by a successful apply.  A call that
\* ends duplicate, stale or buffered never enters processBufferedMessages:
\* it fetches no buffered row for draining, runs no buffered event through
\* applyStateChange and deletes no bufferedMessage row.  A call that
\* applies event N drains from N + 1, exactly the buffered events up to the
\* first sequence number that has no buffered row.
C29_DrainOnlyAfterApply ==
  /\ \A i \in Started :
       /\ call[i].pc \in DrainSteps =>
            /\ call[i].outcome = "applied"
            /\ HasMessage(messages, Channel(i), MessageNumber(i))
            /\ call[i].expected > MessageNumber(i)
       /\ call[i].outcome \in {"duplicate", "stale", "buffered"} =>
            /\ call[i].pc = "done"
            /\ call[i].expected = 0
            /\ call[i].buf = {}
            /\ Drained(i) = {}
  /\ LatestDone =>
       LET i == Latest
           c == Channel(i)
           n == MessageNumber(i)
       IN
       /\ call[i].outcome \in {"duplicate", "stale", "buffered"} =>
            /\ pre.buffered \subseteq buffered
            /\ rockets = pre.rockets
       /\ call[i].outcome = "applied" =>
            /\ call[i].expected = n + 1 + Contiguous(c, n)
            /\ ~HasBuffered(pre.buffered, c, call[i].expected)
            /\ Drained(i) = (n + 1)..(call[i].expected - 1)

\* C29 witness: an event was buffered by a call that touched nothing else,
\* and the last call applied its event and drained at least one buffered
\* event before stopping at a number with no buffered row.
C29_Witness ==
  /\ LatestDone
  /\ call[Latest].outcome = "applied"
  /\ call[Latest].expected >= MessageNumber(Latest) + 2
  /\ Drained(Latest) # {}
  /\ \E j \in Started : call[j].outcome = "buffered"

\* calls interleave at every repository await, on a launched rocket
SpecLaunched == InitLaunched /\ [][Next]_vars

\* C30: the applied log and the pending buffer are disjoint between
\* submits.  Whenever no processMessage call is in progress, no (channel,
\* messageNumber) has both a message row and a bufferedMessage row.
C30_LogBufferDisjoint ==
  NoCallRunning =>
    \A m \in messages : ~HasBuffered(buffered, m.channel, m.messageNumber)

\* C31: in every reachable state every rocket has status ACTIVE or
\* EXPLODED, and its explosionReason is non-null if and only if its status
\* is EXPLODED.
C31_StatusReason ==
  \A r \in rockets :
    /\ r.status \in {ACTIVE, EXPLODED}
    /\ (r.explosionReason # Null) <=> (r.status = EXPLODED)

\* the message call i hands to applyStateChange at its current step
Handed(i) ==
  IF call[i].pc \in {"drainApply", "drainAudit"}
  THEN Reconstruct(CHOOSE x \in call[i].buf : TRUE)
  ELSE call[i].msg

\* C32: create conflict.  When applyStateChange is handed a RocketLaunched
\* event together with an existing rocket (live or from the buffer), that
\* step changes no rocket row, so there is no second rocket and type,
\* speed, mission, status and explosion reason stay; the call goes on to
\* the audit write, after which the event has its message row.
C32_CreateConflict ==
  [][ \A i \in Calls :
        ( /\ call[i].pc \in {"applyLive", "drainApply", "auditLive", "drainAudit"}
          /\ call'[i].pc # call[i].pc
          /\ Handed(i).metadata.messageType = ROCKET_LAUNCHED
          /\ call[i].rocket # {} )
        => /\ rockets' = rockets
           /\ Cardinality(RocketFindByChannel(rockets', Channel(i))) <= 1
           /\ call[i].pc = "applyLive" => call'[i].pc = "auditLive"
           /\ call[i].pc = "drainApply" => call'[i].pc = "drainAudit"
           /\ call[i].pc \in {"auditLive", "drainAudit"} =>
                \E m \in messages' :
                  /\ m.channel = Channel(i)
                  /\ m.messageNumber = Handed(i).metadata.messageNumber
    ]_vars

\* C32 witness: a RocketLaunched event was applied on a channel that had a
\* rocket; the call is over, the rocket is as it was before the call and
\* the event has its message row.
C32_Witness ==
  /\ LatestDone
  /\ call[Latest].msg.metadata.messageType = ROCKET_LAUNCHED
  /\ call[Latest].rocket # {}
  /\ call[Latest].outcome = "applied"
  /\ rockets = pre.rockets
  /\ rockets = call[Latest].rocket
  /\ \E m \in messages \ pre.messages :
       m.messageNumber = MessageNumber(Latest) /\ m.messageType = ROCKET_LAUNCHED

\* C33: create on an absent entity.  A RocketLaunched event submitted for a
\* channel without a rocket leaves exactly one rocket for the channel:
\* status ACTIVE, explosionReason null, type, speed and mission those of
\* the event, lastMessageNumber its sequence number, lastMessageTime its
\* timestamp; and exactly one message row, its own, is written.
C33_CreateOnAbsent ==
  ( /\ LatestDone
    /\ call[Latest].msg.metadata.messageType = ROCKET_LAUNCHED
    /\ RocketFindByChannel(pre.rockets, Channel(Latest)) = {} )
  => LET im == call[Latest].msg IN
     /\ call[Latest].outcome = "applied"
     /\ rockets = pre.rockets \cup
          {[channel |-> im.metadata.channel,
            type |-> im.message.type,
            currentSpeed |-> im.message.launchSpeed,
            mission |-> im.message.mission,
            status |-> ACTIVE,
            explosionReason |-> Null,
            lastMessageNumber |-> im.metadata.messageNumber,
            lastMessageTime |-> ParseDate(im.metadata.messageTime)]}
     /\ Cardinality(RocketFindByChannel(rockets, Channel(Latest))) = 1
     /\ messages \ pre.messages = {MessageData(im)}

\* C33 witness: a RocketLaunched event with sequence number 3 was
\* submitted for a channel without a rocket, and its call is over.
C33_Witness ==
  /\ LatestDone
  /\ call[Latest].msg.metadata.messageType = ROCKET_LAUNCHED
  /\ MessageNumber(Latest) = 3
  /\ pre.rockets = {}
  /\ \E r \in rockets : r.lastMessageNumber = 3 /\ r.currentSpeed = 500

\* C34: SpeedDecrease(by) applied to an ACTIVE rocket with speed v sets the
\* speed to v - by when by <= v and to 0 when by > v, and the step is not an
\* error: the call goes on to the audit write.
C34_DecreaseClamped ==
  [][ \A i \in Calls :
        ( /\ call[i].pc \in {"applyLive", "drainApply"}
          /\ call'[i].pc # call[i].pc
          /\ Handed(i).metadata.messageType = ROCKET_SPEED_DECREASED
          /\ \E r \in call[i].rocket : r.status = ACTIVE )
        => LET v == (CHOOSE r \in call[i].rocket : TRUE).currentSpeed
               by == Handed(i).message.by
           IN
           /\ RocketFindByChannel(rockets', Channel(i)) # {}
           /\ \A q \in RocketFindByChannel(rockets', Channel(i)) :
                q.currentSpeed = IF by <= v THEN v - by ELSE 0
           /\ call'[i].pc \in {"auditLive", "drainAudit"}
    ]_vars

\* C34 witness: Create(1, speed 500) then SpeedDecrease(2, by 1000) has
\* ended with speed 0.
C34_Witness ==
  /\ LatestDone
  /\ call[Latest].msg.metadata.messageType = ROCKET_SPEED_DECREASED
  /\ MessageNumber(Latest) = 2
  /\ call[Latest].outcome = "applied"
  /\ \E r \in pre.rockets : r.currentSpeed = 500 /\ r.lastMessageNumber = 1
  /\ \E r \in rockets : r.currentSpeed = 0 /\ r.lastMessageNumber = 2 /\ r.status = ACTIVE

\* C35: Terminate.  When applyStateChange is handed a RocketExploded event
\* and an existing rocket, whatever that rocket's status and speed, the
\* step leaves the rocket with status EXPLODED, explosionReason the event's
\* reason, speed 0 and lastMessageNumber the event's number, and with the
\* type and mission it had.
C35_Terminate ==
  [][ \A i \in Calls :
        ( /\ call[i].pc \in {"applyLive", "drainApply"}
          /\ call'[i].pc # call[i].pc
          /\ Handed(i).metadata.messageType = ROCKET_EXPLODED
          /\ call[i].rocket # {} )
        => LET r == CHOOSE x \in call[i].rocket : TRUE IN
           /\ RocketFindByChannel(rockets', Channel(i)) # {}
           /\ \A q \in RocketFindByChannel(rockets', Channel(i)) :
                /\ q.status = EXPLODED
                /\ q.explosionReason = Handed(i).message.reason
                /\ q.currentSpeed = 0
                /\ q.lastMessageNumber = Handed(i).metadata.messageNumber
                /\ q.type = r.type
                /\ q.mission = r.mission
    ]_vars

\* C35 witness: a rocket exploded for reason "X" has been handed a second
\* RocketExploded event with reason "Y", and now carries "Y".
C35_Witness ==
  /\ LatestDone
  /\ call[Latest].msg.metadata.messageType = ROCKET_EXPLODED
  /\ call[Latest].outcome = "applied"
  /\ \E r \in pre.rockets : r.status = EXPLODED /\ r.explosionReason = "X"
  /\ \E r \in rockets :
       /\ r.status = EXPLODED
       /\ r.explosionReason = "Y"
       /\ r.lastMessageNumber = MessageNumber(Latest)

\* C36: on an ACTIVE rocket each non-terminating event changes only its own
\* attribute.  Handed a RocketSpeedIncreased(by), applyStateChange leaves
\* speed + by and the mission, type, status and explosion reason as they
\* were; handed a RocketMissionChanged(newMission), it leaves the mission
\* newMission and the speed, type, status and explosion reason as they were.
C36_OwnAttributeOnly ==
  [][ \A i \in Calls :
        ( /\ call[i].pc \in {"applyLive", "drainApply"}
          /\ call'[i].pc # call[i].pc
          /\ Handed(i).metadata.messageType \in {ROCKET_SPEED_INCREASED, ROCKET_MISSION_CHANGED}
          /\ \E r \in call[i].rocket : r.status = ACTIVE )
        => LET r == CHOOSE x \in call[i].rocket : TRUE
               im == Handed(i)
           IN
           /\ RocketFindByChannel(rockets', Channel(i)) # {}
           /\ \A q \in RocketFindByChannel(rockets', Channel(i)) :
                /\ q.type = r.type
                /\ q.status = r.status
                /\ q.explosionReason = r.explosionReason
                /\ im.metadata.messageType = ROCKET_SPEED_INCREASED =>
                     q.currentSpeed = r.currentSpeed + im.message.by /\ q.mission = r.mission
                /\ im.metadata.messageType = ROCKET_MISSION_CHANGED =>
                     q.mission = im.message.newMission /\ q.currentSpeed = r.currentSpeed
    ]_vars

\* C36 witness: a launched rocket was handed a speed increase and a mission
\* change; it has the new mission, the increased speed, and is ACTIVE.
C36_Witness ==
  /\ LatestDone
  /\ call[Latest].msg.metadata.messageType = ROCKET_MISSION_CHANGED
  /\ call[Latest].outcome = "applied"
  /\ \E r \in pre.rockets : r.mission = "ARTEMIS" /\ r.currentSpeed = 1000
  /\ \E r \in rockets :
       /\ r.mission = "SHUTTLE_MIR"
       /\ r.currentSpeed = 1000
       /\ r.status = ACTIVE
       /\ r.type = "Falcon-9"

\* C37 (as claimed): strict application order.  With sequential calls and
\* no storage failure, every event handed to applyStateChange (live or in
\* the drain) has a sequence number above those of all events of its
\* channel handed to it before, and no rocket's lastMessageNumber ever
\* decreases.
C37_StrictOrder ==
  [][ /\ Len(transitions') > Len(transitions) =>
           \A k \in 1..Len(transitions) :
             transitions[k].channel = transitions'[Len(transitions')].channel
               => transitions[k].messageNumber < transitions'[Len(transitions')].messageNumber
      /\ \A r \in rockets :
           \A q \in RocketFindByChannel(rockets', r.channel) :
             q.lastMessageNumber >= r.lastMessageNumber
    ]_vars

\* C37 (amended): strict application order of the events applyStateChange
\* accepts.  With sequential calls and no storage failure, every event for
\* which applyStateChange returns (live or in the drain) has a sequence
\* number above those of all events of its channel it returned for before
\* (an invocation that throws rocket-not-found does not count), and no
\* rocket's lastMessageNumber ever decreases.
C37_StrictOrderOfApplied ==
  [][ /\ ( Len(transitions') > Len(transitions) /\ transitions'[Len(transitions')].ok ) =>
           \A k \in 1..Len(transitions) :
             ( transitions[k].channel = transitions'[Len(transitions')].channel
               /\ transitions[k].ok )
               => transitions[k].messageNumber < transitions'[Len(transitions')].messageNumber
      /\ \A r \in rockets :
           \A q \in RocketFindByChannel(rockets', r.channel) :
             q.lastMessageNumber >= r.lastMessageNumber
    ]_vars

\* C37 witness: applyStateChange has returned for the events 1, 2 and 3 of
\* a channel in this order, the last one in the drain.
C37_Witness ==
  /\ Len(transitions) = 3
  /\ \A k \in 1..3 : transitions[k].ok /\ transitions[k].messageNumber = k
  /\ transitions[3].path = "drain"
  /\ \E r \in rockets : r.lastMessageNumber = 3

\* C38: first event of a channel.  An event that arrives while the channel
\* has no rocket is neither buffered nor audited as stale, whatever its
\* sequence number; a RocketLaunched with sequence number k is applied and
\* creates the rocket with lastMessageNumber k; afterwards an event with a
\* sequence number below the rocket's lastMessageNumber (and not seen
\* before) is stale: it gets its message row, it is not handed to
\* applyStateChange and the rocket stays as it is.
C38_FirstEvent ==
  Started # {} =>
    LET i == Latest
        c == Channel(i)
        n == MessageNumber(i)
        found == RocketFindByChannel(pre.rockets, c)
    IN
    /\ found = {} =>
         /\ call[i].pc \notin {"auditStale", "bufferFuture"}
         /\ call[i].outcome \in {"running", "applied", "rocketNotFound"}
         /\ buffered = pre.buffered
         /\ ( call[i].pc = "done"
              /\ call[i].msg.metadata.messageType = ROCKET_LAUNCHED ) =>
                /\ call[i].outcome = "applied"
                /\ \E r \in RocketFindByChannel(rockets, c) : r.lastMessageNumber = n
    /\ ( /\ call[i].pc = "done"
         /\ \E r \in found : n < r.lastMessageNumber
         /\ ~HasMessage(pre.messages, c, n)
         /\ ~HasBuffered(pre.buffered, c, n) ) =>
           /\ call[i].outcome = "stale"
           /\ messages = pre.messages \cup {MessageData(call[i].msg)}
           /\ rockets = pre.rockets
           /\ buffered = pre.buffered
           /\ Len(transitions) = pre.mark

\* C38 witness: the first event of the channel was a RocketLaunched with
\* sequence number 3, which created the rocket; event 2 submitted after it
\* has been audited as stale.
C38_Witness ==
  /\ LatestDone
  /\ Latest = 2
  /\ call[1].msg.metadata.messageType = ROCKET_LAUNCHED
  /\ MessageNumber(1) = 3
  /\ call[1].outcome = "applied"
  /\ MessageNumber(2) = 2
  /\ call[2].outcome = "stale"
  /\ \E r \in rockets : r.lastMessageNumber = 3
  /\ HasMessage(messages, Channel(2), 2)

\* C39: every processMessage call terminates.  A call that has started
\* reaches its end (return or throw) whatever the buffer holds: it does not
\* wait for a missing sequence number; and its drain takes one step per
\* buffered row: the number of rows it has deleted is the number of
\* sequence numbers it has moved on, and it hands no more events to
\* applyStateChange than the channel had buffered rows when it arrived.
C39_Terminates ==
  /\ [](Started # {} =>
         LET i == Latest IN
         call[i].expected # 0 =>
           /\ Cardinality(pre.buffered \ buffered) = call[i].expected - MessageNumber(i) - 1
           /\ Cardinality(Drained(i)) <= Cardinality(pre.buffered))
  /\ \A i \in Calls : (call[i].pc \notin {"idle", "done"}) ~> (call[i].pc = "done")

\* C39 witness: a call has ended after buffering its event although the
\* number before it is missing, and a later call has ended after applying
\* that number and draining the one buffered row.
C39_Witness ==
  /\ LatestDone
  /\ Latest = 3
  /\ call[2].outcome = "buffered"
  /\ MessageNumber(2) = 3
  /\ MessageNumber(3) = 2
  /\ call[3].expected = 4
  /\ Drained(3) = {3}
  /\ pre.buffered # {}
  /\ buffered = {}

\* C40: a pending record exists only for a channel that has a rocket.  In
\* every state reached by processMessage calls alone, concurrent ones
\* included, every bufferedMessage row is of a channel with a rocket row,
\* and a drain that reloads the rocket finds one: the rocket-not-found
\* branch of the drain is never taken.
C40_BufferedHasRocket ==
  /\ \A b \in buffered : RocketFindByChannel(rockets, b.channel) # {}
  /\ \A i \in Started :
       call[i].pc \in {"bufferFuture", "drainLoad"} =>
         RocketFindByChannel(rockets, Channel(i)) # {}

\* C40 witness: a call that applied its event is in the drain, has found
\* the bufferedMessage row of the next number and is about to reload the
\* rocket, which exists.
C40_Witness ==
  \E i \in Started :
    /\ call[i].pc = "drainLoad"
    /\ call[i].buf # {}
    /\ call[i].buf \subseteq buffered
    /\ RocketFindByChannel(rockets, Channel(i)) # {}

====
